---- MODULE Spec2Model ----
(***************************************************************************)
(* Model of the suggest / report optimizer of src/src/algorithm.rs         *)
(* (Optimizer::new, next_explore_point, next_with_value,                   *)
(* set_exploration_depth and their private helpers).                       *)
(*                                                                         *)
(* Numbers.  The program works on floats; the model works on exact         *)
(* integers.  Values are small integers.  An internal coordinate x is      *)
(* held as the integer x * Den(d), where Den(d) = (d+1)^MaxReports is a    *)
(* common denominator of every centroid the bounded runs can build, so     *)
(* centroids are exact.  A domain coordinate y is held as y * Den(d) too.  *)
(*                                                                         *)
(* Point, Simplex and SearchSpace live in point.rs, simplex.rs and         *)
(* search_space.rs, which are not part of the available source: their      *)
(* operators below are written from the specification (sections 3, 4.1,    *)
(* 4.3).  The priority queue is the priority_queue crate: a map from item  *)
(* to priority whose pop returns an item of maximal priority; which one    *)
(* of several maximal items it returns is left open here.                  *)
(***************************************************************************)
EXTENDS Integers, Sequences, FiniteSets, TLC

\* ---------------------------------------------------------------- bounds
MaxDim == 2          \* dimensions 1..MaxDim
MaxVal == 0          \* reported values range over -1..MaxVal
MaxReports == 4      \* next_with_value calls per run
MaxDepthArg == 0     \* set_exploration_depth arguments 0..MaxDepthArg

Values == (0 - 1)..MaxVal
Dims == 1..MaxDim
DepthArgs == 0..MaxDepthArg

\* ---------------------------------------------------------------- helpers
None == <<>>
Some(x) == <<x>>
IsSome(o) == o # <<>>
Unwrap(o) == o[1]

MaxOf(S) == CHOOSE x \in S : \A y \in S : y <= x
MinOf(S) == CHOOSE x \in S : \A y \in S : x <= y

RECURSIVE Pow(_, _)
Pow(b, e) == IF e = 0 THEN 1 ELSE b * Pow(b, e - 1)

\* common denominator of the internal coordinates of a d-dimensional run
Den(d) == Pow(d + 1, MaxReports)

\* ------------------------------------------------------- search_space.rs
\* the intervals of the documentation example, (-10, 10), (-20, 20), ...
input_interval(d) == [i \in 1..d |-> <<0 - 10 * i, 10 * i>>]

\* lists of intervals outside the contract: no interval at all, an interval
\* of no width, an interval whose bounds are swapped
BadIntervals ==
    {<<>>}
    \cup {[i \in 1..d |-> <<10 * i, 10 * i>>] : d \in Dims}
    \cup {[i \in 1..d |-> <<10 * i, 0 - 10 * i>>] : d \in Dims}

SearchSpace_new(interval) == [hypercube |-> interval, dimension |-> Len(interval)]

\* affine per-dimension map: internal 0 -> lower bound, internal 1 -> upper bound
to_hypercube(search_space, c) ==
    [i \in 1..search_space.dimension |->
        search_space.hypercube[i][1] * Den(search_space.dimension)
        + c[i] * (search_space.hypercube[i][2] - search_space.hypercube[i][1])]

\* -------------------------------------------------------------- point.rs
Point(coordinates, value) == [coordinates |-> coordinates, value |-> value]

\* value carried by the corners of the initial simplex before they are evaluated
InitialValue == 0

\* ------------------------------------------------------------ simplex.rs
\* centroid of the corners
Center(corners) ==
    LET n == Len(corners)
        d == Len(corners[1].coordinates)
        RECURSIVE SumAt(_, _)
        SumAt(k, i) == IF i = 0 THEN 0 ELSE corners[i].coordinates[k] + SumAt(k, i - 1)
    IN [k \in 1..d |-> SumAt(k, n) \div n]

\* level: number of splits between the initial simplex and this one (its size)
Simplex_new(corners, level, difference) ==
    [corners |-> corners, center |-> Center(corners),
     level |-> level, difference |-> difference]

\* one corner at the internal origin, one corner per axis at unit offset
initial_simplex(search_space) ==
    LET d == search_space.dimension
        corner(i) == Point([k \in 1..d |-> IF k = i - 1 THEN Den(d) ELSE 0], InitialValue)
    IN Simplex_new([i \in 1..(d + 1) |-> corner(i)], 0, 0)

\* d+1 children, child i replaces corner i by the new point; all are stamped
split(simplex, new_point, difference) ==
    [i \in 1..Len(simplex.corners) |->
        Simplex_new([simplex.corners EXCEPT ![i] = new_point],
                    simplex.level + 1, difference)]

\* exploitation: the best corner; exploration: a penalty of one cached range
\* per exploration_depth splits (started), so larger regions score higher
evaluate(simplex, exploration_depth) ==
    MaxOf({simplex.corners[i].value : i \in 1..Len(simplex.corners)})
    - simplex.difference
      * ((simplex.level + exploration_depth - 1) \div exploration_depth)

\* --------------------------------------------------------- priority_queue
\* a queue is a set of entries [item, priority], at most one per item
Entry(item, priority) == [item |-> item, priority |-> priority]

\* the item's region, which the bookkeeping fields do not change
SameItem(a, b) == a.corners = b.corners

PriorityQueue_new == {}

\* push replaces the priority of an item already present
push(queue, item, priority) ==
    {e \in queue : ~SameItem(e.item, item)} \cup {Entry(item, priority)}

\* the entries pop may return: those of maximal priority
PopCandidates(queue) == {e \in queue : \A f \in queue : f.priority <= e.priority}

len(queue) == Cardinality(queue)

\* ------------------------------------------------------------ Optimizer
DefaultExplorationDepth == 6

\* Optimizer::new: the state after construction
Optimizer_new(interval, should_minimize) ==
    LET search_space == SearchSpace_new(interval)
        simplex == initial_simplex(search_space)
    IN [minimize |-> should_minimize,
        exploration_depth |-> DefaultExplorationDepth,
        search_space |-> search_space,
        best_point |-> simplex.corners[1],
        min_value |-> 0,
        in_progress_simplex |-> Some([dim |-> 0, simplex |-> simplex]),
        current_simplex |-> None,
        queue |-> PriorityQueue_new,
        current_difference |-> None]

\* max_by_key returns the last of several maximal corners
LastMaxCorner(corners) ==
    LET best == MaxOf({corners[i].value : i \in 1..Len(corners)})
        at == MaxOf({i \in 1..Len(corners) : corners[i].value = best})
    IN corners[at]

\* finalize_initial_simplex leaving in_progress_simplex in place
finalize_initial_simplex_keeps_in_progress(self) ==
    IF IsSome(self.in_progress_simplex)
    THEN LET simplex == Unwrap(self.in_progress_simplex).simplex
             best_point == LastMaxCorner(simplex.corners)
             min_value == MinOf({simplex.corners[i].value : i \in 1..Len(simplex.corners)})
         IN [self EXCEPT !.queue = push(self.queue, simplex, 0),
                         !.min_value = min_value,
                         !.best_point = best_point]
    ELSE self

\* finalize_initial_simplex leaving min_value as the constructor set it
finalize_initial_simplex_keeps_min(self) ==
    IF IsSome(self.in_progress_simplex)
    THEN LET simplex == Unwrap(self.in_progress_simplex).simplex
             best_point == LastMaxCorner(simplex.corners)
         IN [self EXCEPT !.queue = push(self.queue, simplex, 0),
                         !.best_point = best_point,
                         !.in_progress_simplex = None]
    ELSE [self EXCEPT !.in_progress_simplex = None]

finalize_initial_simplex(self) ==
    IF IsSome(self.in_progress_simplex)
    THEN LET simplex == Unwrap(self.in_progress_simplex).simplex
             best_point == LastMaxCorner(simplex.corners)
             min_value == MinOf({simplex.corners[i].value : i \in 1..Len(simplex.corners)})
         IN [self EXCEPT !.queue = push(self.queue, simplex, 0),
                         !.min_value = min_value,
                         !.best_point = best_point,
                         !.in_progress_simplex = None]
    ELSE [self EXCEPT !.in_progress_simplex = None]

\* step_in_progress_simplex finalizing one corner early
step_in_progress_simplex_early(self, value) ==
    IF IsSome(self.in_progress_simplex)
    THEN LET dim == Unwrap(self.in_progress_simplex).dim
             simplex == Unwrap(self.in_progress_simplex).simplex
             coordinates == simplex.corners[dim + 1].coordinates
             stepped == [simplex EXCEPT !.corners[dim + 1] = Point(coordinates, value)]
             after == [self EXCEPT !.in_progress_simplex =
                                      Some([dim |-> dim + 1, simplex |-> stepped])]
         IN IF dim + 2 < Len(simplex.corners)
            THEN [self |-> after, ret |-> Some(stepped.corners[dim + 2].coordinates)]
            ELSE [self |-> finalize_initial_simplex(after), ret |-> None]
    ELSE [self |-> finalize_initial_simplex(self), ret |-> None]

\* returns the optimizer after the step and the next corner, if there is one
step_in_progress_simplex(self, value) ==
    IF IsSome(self.in_progress_simplex)
    THEN LET dim == Unwrap(self.in_progress_simplex).dim
             simplex == Unwrap(self.in_progress_simplex).simplex
             coordinates == simplex.corners[dim + 1].coordinates
             stepped == [simplex EXCEPT !.corners[dim + 1] = Point(coordinates, value)]
             after == [self EXCEPT !.in_progress_simplex =
                                      Some([dim |-> dim + 1, simplex |-> stepped])]
         IN IF dim + 1 < Len(simplex.corners)
            THEN [self |-> after, ret |-> Some(stepped.corners[dim + 2].coordinates)]
            ELSE [self |-> finalize_initial_simplex(after), ret |-> None]
    ELSE [self |-> finalize_initial_simplex(self), ret |-> None]

\* set_exploration_depth storing its argument as it is
set_exploration_depth_plain(self, exploration_depth) ==
    [self EXCEPT !.exploration_depth = exploration_depth]

set_exploration_depth(self, exploration_depth) ==
    [self EXCEPT !.exploration_depth = exploration_depth + 1]

\* the bound of the rescoring loop as if taken before the first pop
max_iter_before_pop(queue) == len(queue) + 1

\* the bound of the rescoring loop, taken after the first pop
max_iter(queue) == len(queue)

\* the while loop of next_explore_point, from a popped simplex on: the set of
\* its results [simplex, queue, n_iter, pushed], one per way the pops may fall.
\* The priority pushed is new_evaluation: the code also computes a
\* cleaned_evaluation (best_point.value or min_value in place of a score at
\* the float limits) and does not use it.
RECURSIVE rescoring_loop(_, _, _, _, _, _, _)
rescoring_loop(simplex, queue, n_iter, bound, current_difference, exploration_depth, pushed) ==
    IF simplex.difference # current_difference /\ n_iter < bound
    THEN LET stamped == [simplex EXCEPT !.difference = current_difference]
             new_evaluation == evaluate(stamped, exploration_depth)
             pushed_queue == push(queue, stamped, new_evaluation)
         IN UNION {rescoring_loop(e.item, pushed_queue \ {e}, n_iter + 1, bound,
                                  current_difference, exploration_depth,
                                  pushed \cup {new_evaluation})
                   : e \in PopCandidates(pushed_queue)}
    ELSE {[simplex |-> simplex, queue |-> queue, n_iter |-> n_iter, pushed |-> pushed]}

\* next_explore_point: the set of its outcomes.  ret is the returned
\* coordinates (None when the call panics), pops the number of queue.pop()
\* that returned a simplex, start_len the queue's size at entry, pushed the
\* priorities pushed
next_explore_point(self) ==
    IF IsSome(self.in_progress_simplex)
    THEN LET dim == Unwrap(self.in_progress_simplex).dim
             simplex == Unwrap(self.in_progress_simplex).simplex
         IN {[self |-> self, ret |-> Some(simplex.corners[dim + 1].coordinates),
              panic |-> FALSE, pops |-> 0, start_len |-> len(self.queue), pushed |-> {}]}
    ELSE IF self.queue = {}
    THEN {[self |-> self, ret |-> None, panic |-> TRUE, pops |-> 0,
           start_len |-> 0, pushed |-> {}]}
    ELSE LET current_difference == self.best_point.value - self.min_value
         IN UNION {
              {[self |-> [self EXCEPT !.queue = r.queue,
                                      !.current_simplex = Some(r.simplex),
                                      !.current_difference = Some(current_difference)],
                ret |-> Some(to_hypercube(self.search_space, r.simplex.center)),
                panic |-> FALSE, pops |-> 1 + r.n_iter,
                start_len |-> len(self.queue), pushed |-> r.pushed]
               : r \in rescoring_loop(e.item, self.queue \ {e}, 0,
                                      max_iter(self.queue \ {e}), current_difference,
                                      self.exploration_depth, {})}
              : e \in PopCandidates(self.queue)}

\* pending_simplex taking the top of the queue as it is, without rescoring
pending_simplex_unrescored(self) ==
    IF IsSome(self.current_simplex)
    THEN {[self |-> self, ret |-> None, panic |-> FALSE, pops |-> 0,
           start_len |-> len(self.queue), pushed |-> {}]}
    ELSE IF self.queue = {}
    THEN {[self |-> self, ret |-> None, panic |-> TRUE, pops |-> 0,
           start_len |-> 0, pushed |-> {}]}
    ELSE {[self |-> [self EXCEPT !.queue = self.queue \ {e},
                                 !.current_simplex = Some(e.item),
                                 !.current_difference =
                                     Some(self.best_point.value - self.min_value)],
           ret |-> Some(to_hypercube(self.search_space, e.item.center)),
           panic |-> FALSE, pops |-> 1, start_len |-> len(self.queue), pushed |-> {}]
          : e \in PopCandidates(self.queue)}

\* the simplex next_with_value splits: the pending one, or the one a call of
\* next_explore_point makes pending
pending_simplex(self) ==
    IF IsSome(self.current_simplex)
    THEN {[self |-> self, ret |-> None, panic |-> FALSE, pops |-> 0,
           start_len |-> len(self.queue), pushed |-> {}]}
    ELSE next_explore_point(self)

\* push_children leaving the last child out
RECURSIVE push_children_but_last(_, _, _, _)
push_children_but_last(queue, children, i, exploration_depth) ==
    IF i >= Len(children) THEN queue
    ELSE push_children_but_last(
             push(queue, children[i], evaluate(children[i], exploration_depth)),
             children, i + 1, exploration_depth)

\* the children pushed one after the other, each with its score
RECURSIVE push_children(_, _, _, _)
push_children(queue, children, i, exploration_depth) ==
    IF i > Len(children) THEN queue
    ELSE push_children(push(queue, children[i], evaluate(children[i], exploration_depth)),
                       children, i + 1, exploration_depth)

\* best_point replaced by a new point whose value is as great
updated_best_point_on_tie(self, new_point) ==
    IF new_point.value >= self.best_point.value THEN new_point ELSE self.best_point

\* the update of the range trackers by a reported point: it replaces
\* best_point when its value is greater; otherwise its value replaces
\* min_value when it is smaller
updated_best_point(self, new_point) ==
    IF new_point.value > self.best_point.value THEN new_point ELSE self.best_point

updated_min_value(self, value) ==
    IF value > self.best_point.value THEN self.min_value
    ELSE IF value < self.min_value THEN value
    ELSE self.min_value

\* next_with_value: the set of its outcomes.  ret is the returned pair,
\* pushed the priorities pushed, lo and hi are min_value and best_point.value
\* while the children were pushed, implicit tells that no suggestion was pending
next_with_value(self, value) ==
    IF IsSome(self.in_progress_simplex)
    THEN LET after == step_in_progress_simplex(self, value).self
         IN {[self |-> after,
              ret |-> Some(<<after.best_point.value, after.best_point.coordinates>>),
              panic |-> FALSE, pushed |-> {}, lo |-> self.min_value,
              hi |-> self.best_point.value, implicit |-> FALSE, pops |-> 0,
              start_len |-> len(self.queue)]}
    ELSE {IF p.panic
          THEN [self |-> p.self, ret |-> None, panic |-> TRUE, pushed |-> {},
                lo |-> self.min_value, hi |-> self.best_point.value,
                implicit |-> TRUE, pops |-> 0, start_len |-> 0]
          ELSE LET simplex == Unwrap(p.self.current_simplex)
                   current_difference == Unwrap(p.self.current_difference)
                   new_point == Point(simplex.center, value)
                   children == split(simplex, new_point, current_difference)
                   queue == push_children(p.self.queue, children, 1, self.exploration_depth)
                   best_point == updated_best_point(self, new_point)
                   min_value == updated_min_value(self, new_point.value)
                   best_value == IF self.minimize THEN 0 - best_point.value
                                 ELSE best_point.value
               IN [self |-> [p.self EXCEPT !.current_simplex = None,
                                           !.current_difference = None,
                                           !.queue = queue,
                                           !.best_point = best_point,
                                           !.min_value = min_value],
                   ret |-> Some(<<best_value,
                                  to_hypercube(self.search_space, best_point.coordinates)>>),
                   panic |-> FALSE,
                   pushed |-> p.pushed \cup
                              {evaluate(children[i], self.exploration_depth)
                               : i \in 1..Len(children)},
                   lo |-> self.min_value, hi |-> self.best_point.value,
                   implicit |-> ~IsSome(self.current_simplex),
                   pops |-> p.pops, start_len |-> p.start_len]
          : p \in pending_simplex(self)}

\* ---------------------------------------------------------- state machine
VARIABLES
    exploration_depth, minimize, search_space, best_point, min_value,
    in_progress_simplex, current_simplex, current_difference, queue,
    panicked,      \* a call has panicked: the run is over
    reported,      \* the values passed to next_with_value so far, in order
    last_call,     \* what the last call of next_explore_point / next_with_value did
    pending_ret,   \* coordinates of the last suggestion not yet answered by a report
    last_report    \* what the last next_with_value returned

vars == <<exploration_depth, minimize, search_space, best_point, min_value,
          in_progress_simplex, current_simplex, current_difference, queue,
          panicked, reported, last_call, pending_ret, last_report>>

\* the optimizer as one value
Self ==
    [minimize |-> minimize,
     exploration_depth |-> exploration_depth,
     search_space |-> search_space,
     best_point |-> best_point,
     min_value |-> min_value,
     in_progress_simplex |-> in_progress_simplex,
     current_simplex |-> current_simplex,
     queue |-> queue,
     current_difference |-> current_difference]

Becomes(self) ==
    /\ minimize' = self.minimize
    /\ exploration_depth' = self.exploration_depth
    /\ search_space' = self.search_space
    /\ best_point' = self.best_point
    /\ min_value' = self.min_value
    /\ in_progress_simplex' = self.in_progress_simplex
    /\ current_simplex' = self.current_simplex
    /\ queue' = self.queue
    /\ current_difference' = self.current_difference

NoCall ==
    [op |-> "new", ret |-> None, pops |-> 0, start_len |-> 0, pushed |-> {},
     lo |-> 0, hi |-> 0, implicit |-> FALSE, bootstrap |-> TRUE]

\* the state after Optimizer::new(interval, should_minimize)
Constructed(interval, should_minimize) ==
    LET self == Optimizer_new(interval, should_minimize)
    IN /\ minimize = self.minimize
       /\ exploration_depth = self.exploration_depth
       /\ search_space = self.search_space
       /\ best_point = self.best_point
       /\ min_value = self.min_value
       /\ in_progress_simplex = self.in_progress_simplex
       /\ current_simplex = self.current_simplex
       /\ queue = self.queue
       /\ current_difference = self.current_difference
       /\ panicked = FALSE
       /\ reported = <<>>
       /\ last_call = NoCall
       /\ pending_ret = None
       /\ last_report = None

Init ==
    \E d \in Dims, should_minimize \in BOOLEAN :
        Constructed(input_interval(d), should_minimize)

NextExplorePoint ==
    /\ ~panicked
    /\ \E o \in next_explore_point(Self) :
          /\ Becomes(o.self)
          /\ panicked' = o.panic
          /\ last_call' = [op |-> "next_explore_point", ret |-> o.ret, pops |-> o.pops,
                           start_len |-> o.start_len, pushed |-> o.pushed,
                           lo |-> min_value, hi |-> best_point.value,
                           implicit |-> FALSE,
                           bootstrap |-> IsSome(in_progress_simplex)]
          /\ pending_ret' = IF o.panic THEN pending_ret ELSE o.ret
    /\ UNCHANGED <<reported, last_report>>

NextWithValue(value) ==
    /\ ~panicked
    /\ Len(reported) < MaxReports
    /\ \E o \in next_with_value(Self, value) :
          /\ Becomes(o.self)
          /\ panicked' = o.panic
          /\ last_call' = [op |-> "next_with_value", ret |-> o.ret, pops |-> o.pops,
                           start_len |-> o.start_len, pushed |-> o.pushed,
                           lo |-> o.lo, hi |-> o.hi, implicit |-> o.implicit,
                           bootstrap |-> IsSome(in_progress_simplex)]
          /\ reported' = IF o.panic THEN reported ELSE Append(reported, value)
          /\ pending_ret' = IF o.panic THEN pending_ret ELSE None
          /\ last_report' = IF o.panic THEN last_report ELSE o.ret

\* set_exploration_depth has no precondition: it may be called at any point
\* of a run and any number of times
SetExplorationDepth(depth) ==
    /\ ~panicked
    /\ Becomes(set_exploration_depth(Self, depth))
    /\ UNCHANGED <<panicked, reported, last_call, pending_ret, last_report>>

Next ==
    \/ NextExplorePoint
    \/ \E value \in Values : NextWithValue(value)
    \/ \E depth \in DepthArgs : SetExplorationDepth(depth)

Spec == Init /\ [][Next]_vars

\* Optimizer::new called with the documented intervals and with lists of
\* intervals outside the contract
InitAnyBounds ==
    \E interval \in {input_interval(d) : d \in Dims} \cup BadIntervals,
       should_minimize \in BOOLEAN :
        Constructed(interval, should_minimize)

SpecAnyBounds == InitAnyBounds /\ [][Next]_vars

\* ------------------------------------------------------------- properties
Dimension == search_space.dimension
Bootstrapping == IsSome(in_progress_simplex)
BootstrapDone == Len(reported) >= Dimension + 1
ReportedValues == {reported[i] : i \in 1..Len(reported)}
Suggested == last_call.op = "next_explore_point" /\ ~panicked
Reported == last_call.op = "next_with_value" /\ ~panicked

\* C1: calling next_explore_point a second time with no next_with_value in
\* between returns the coordinates of the first call, pops nothing from the
\* queue and leaves current_simplex as it is.
C1_IdempotentSuggestion ==
    [][(/\ last_call'.op = "next_explore_point"
        /\ exploration_depth' = exploration_depth
        /\ IsSome(pending_ret))
        => /\ ~panicked'
           /\ last_call'.ret = pending_ret
           /\ queue' = queue
           /\ current_simplex' = current_simplex]_vars

\* C2: once bootstrap has completed no call sequence makes a queue.pop() of
\* next_explore_point find the queue empty: the "queue cannot be empty" panic
\* is unreachable.
C2_QueueNeverEmpty == ~panicked

\* C3: the optimizer is in the bootstrap phase (in_progress_simplex present,
\* queue empty) exactly while fewer than d+1 values have been reported; with
\* i values reported next_explore_point returns corner i of the initial
\* simplex, the corners are distinct, and after the (d+1)-th report the
\* queue-based phase has begun.
C3_BootstrapCompleteness ==
    LET n == Len(reported)
        initial == initial_simplex(search_space)
    IN /\ n < Dimension + 1
           => /\ Bootstrapping
              /\ queue = {}
              /\ ~IsSome(current_simplex)
              /\ Unwrap(in_progress_simplex).dim = n
              /\ Suggested => last_call.ret = Some(initial.corners[n + 1].coordinates)
       /\ n >= Dimension + 1
           => /\ ~Bootstrapping
              /\ queue # {} \/ IsSome(current_simplex)
              /\ Suggested => ~last_call.bootstrap /\ last_call.pops >= 1
       /\ \A i, j \in 1..(Dimension + 1) :
              i # j => initial.corners[i].coordinates # initial.corners[j].coordinates

\* C3 witness: the last corner of a 2-dimensional simplex has just been
\* reported, after it had been suggested
C3_Witness ==
    /\ Dimension = 2
    /\ Len(reported) = 3
    /\ Reported
    /\ last_call.bootstrap
    /\ Cardinality(queue) = 1

\* C4: after bootstrap next_with_value returns the most favourable value
\* reported so far: the maximum when maximizing, the minimum when minimizing.
C4_BestValueTracking ==
    (Reported /\ BootstrapDone)
        => Unwrap(last_call.ret)[1] =
              IF minimize THEN MinOf(ReportedValues) ELSE MaxOf(ReportedValues)

\* C5: from the first report on, best_point.value never decreases from one
\* next_with_value call to the next, and the value returned never decreases
\* when maximizing and never increases when minimizing.
C5_MonotonicBest ==
    [][(reported # <<>> /\ ~panicked')
        => /\ best_point'.value >= best_point.value
           /\ (IsSome(last_report) /\ IsSome(last_report'))
                => IF minimize
                   THEN Unwrap(last_report')[1] <= Unwrap(last_report)[1]
                   ELSE Unwrap(last_report')[1] >= Unwrap(last_report)[1]]_vars

\* C6: every next_with_value call, bootstrap or steady state, returns
\* best_point.value (negated exactly when minimizing) together with
\* best_point's coordinates mapped by to_hypercube.
C6_ReturnsSignedBest ==
    Reported
        => last_call.ret =
              Some(<<IF minimize THEN 0 - best_point.value ELSE best_point.value,
                     to_hypercube(search_space, best_point.coordinates)>>)

\* C7: every coordinate vector next_explore_point returns is the to_hypercube
\* image of the internal coordinate it suggests: the next corner during
\* bootstrap, the centre of the pending simplex in steady state.
C7_SuggestionInDomain ==
    Suggested
        => last_call.ret =
              Some(to_hypercube(search_space,
                     IF Bootstrapping
                     THEN LET p == Unwrap(in_progress_simplex)
                          IN p.simplex.corners[p.dim + 1].coordinates
                     ELSE Unwrap(current_simplex).center))

\* C8: a steady-state next_explore_point terminates, and pops at most as many
\* simplices as the queue held when the call started.
C8_StalenessBound ==
    /\ (~Bootstrapping /\ ~panicked /\ queue # {})
          => \E o \in next_explore_point(Self) : ~o.panic
    /\ (last_call.op # "new" /\ ~last_call.bootstrap)
          => last_call.pops <= last_call.start_len

\* C8 witness: a suggestion whose rescoring loop ran and popped as many
\* simplices as the queue held
C8_Witness ==
    /\ Suggested
    /\ ~last_call.bootstrap
    /\ last_call.start_len >= 2
    /\ last_call.pops = last_call.start_len

\* C9: every priority pushed for a scored simplex (rescoring, children of a
\* split) lies between min_value and best_point.value.
C9_ScoreClamping ==
    \A priority \in last_call.pushed :
        last_call.lo <= priority /\ priority <= last_call.hi

\* what a set of call outcomes leaves behind: the optimizer and the result
Observable(outcomes) == {[self |-> o.self, ret |-> o.ret, panic |-> o.panic] : o \in outcomes}

\* C10: in steady state with no pending suggestion, next_with_value(v) alone
\* leaves the same optimizer and returns the same result as next_explore_point
\* followed by next_with_value(v) (in the states where the run may report).
C10_GracefulMisuse ==
    (~Bootstrapping /\ ~IsSome(current_simplex) /\ ~panicked /\ queue # {}
     /\ Len(reported) < MaxReports)
        => \A value \in Values :
              Observable(next_with_value(Self, value)) =
              UNION {Observable(next_with_value(e.self, value))
                     : e \in next_explore_point(Self)}

\* C10 witness: a value was reported in steady state with no suggestion
\* pending, and the queue the implicit suggestion popped from held several
\* simplices
C10_Witness ==
    /\ Reported
    /\ ~last_call.bootstrap
    /\ last_call.implicit
    /\ last_call.start_len >= 2

\* C11: set_exploration_depth(n) makes the exploration depth n + 1 and
\* changes nothing else: the queue with its priorities, best_point, min_value,
\* the bootstrap simplex and its pointer and the pending suggestion stay as
\* they were.  Stated of the call in every state a run passes through, and
\* of every step that changes the depth.
C11_DepthOnly ==
    [][/\ \A depth \in DepthArgs :
              set_exploration_depth(Self, depth)
                  = [Self EXCEPT !.exploration_depth = depth + 1]
       /\ exploration_depth' # exploration_depth
              => /\ \E depth \in DepthArgs : exploration_depth' = depth + 1
                 /\ UNCHANGED <<minimize, search_space, best_point, min_value,
                                in_progress_simplex, current_simplex,
                                current_difference, queue>>]_vars

\* C11 witness: the depth is 1 while a suggestion is pending and the queue
\* holds a simplex whose priority is not the score the depth 1 gives it: the
\* depth was set after that simplex was scored, and its priority was kept
C11_Witness ==
    /\ exploration_depth = 1
    /\ IsSome(current_simplex)
    /\ \E e \in queue : e.priority # evaluate(e.item, exploration_depth)

\* C12: Optimizer::new with an empty list of bounds, or with a pair whose
\* lower bound is not below its upper bound, fails at construction: no
\* optimizer in the Bootstrapping state comes out of it.
C12_FailFast ==
    LET hypercube == search_space.hypercube
    IN (\/ Len(hypercube) = 0
        \/ \E i \in 1..Len(hypercube) : hypercube[i][1] >= hypercube[i][2])
           => panicked /\ ~Bootstrapping

\* C13: right after the (d+1)-th bootstrap report best_point is the corner
\* with the greatest reported value, min_value is the least reported value,
\* in_progress_simplex is cleared and the queue holds one entry of priority
\* 0: the initial simplex, corner i at its original coordinates with the
\* i-th reported value.
C13_BootstrapFinalization ==
    (Reported /\ last_call.bootstrap /\ Len(reported) = Dimension + 1)
        => LET initial == initial_simplex(search_space)
               corners == [i \in 1..(Dimension + 1) |->
                              Point(initial.corners[i].coordinates, reported[i])]
           IN /\ \E i \in 1..(Dimension + 1) : best_point = corners[i]
              /\ \A i \in 1..(Dimension + 1) : reported[i] <= best_point.value
              /\ min_value \in ReportedValues
              /\ \A i \in 1..(Dimension + 1) : min_value <= reported[i]
              /\ in_progress_simplex = None
              /\ Cardinality(queue) = 1
              /\ \A e \in queue : e.priority = 0 /\ e.item.corners = corners

\* C13 witness: a 2-dimensional bootstrap has just ended with the values
\* 0, -1, 0
C13_Witness ==
    /\ Reported
    /\ last_call.bootstrap
    /\ Dimension = 2
    /\ reported = <<0, 0 - 1, 0>>
    /\ queue # {}

\* C14: whenever next_explore_point returns in steady state the
\* simplex it has selected is stamped with the live range
\* best_point.value - min_value.
C14_NoStaleSelection ==
    (Suggested /\ ~last_call.bootstrap)
        => Unwrap(current_simplex).difference = best_point.value - min_value

\* C15: a steady-state next_with_value(value) with a suggestion pending
\* splits the pending simplex around the point (its centroid, value): for
\* each corner the queue gains the simplex with that corner replaced by the
\* new point, stamped with the range recorded at suggestion time, which is
\* the range before value is applied, and scored with the current
\* exploration depth; the queue gains nothing else and loses nothing, the
\* parent is not in it, and afterwards no suggestion is pending.
C15_ReportStep ==
    [][(Len(reported') = Len(reported) + 1 /\ ~Bootstrapping /\ IsSome(current_simplex))
              => LET value == reported'[Len(reported')]
                     parent == Unwrap(current_simplex)
                     snapshot == Unwrap(current_difference)
                     new_point == Point(Center(parent.corners), value)
                     n == Len(parent.corners)
                 IN /\ ~panicked'
                    /\ n = Dimension + 1
                    /\ snapshot = best_point.value - min_value
                    /\ queue \subseteq queue'
                    /\ Cardinality(queue') = Cardinality(queue) + n
                    /\ \A i \in 1..n :
                          \E e \in queue' \ queue :
                              /\ e.item.corners = [parent.corners EXCEPT ![i] = new_point]
                              /\ e.item.difference = snapshot
                              /\ e.item.level = parent.level + 1
                              /\ e.priority = evaluate(e.item, exploration_depth')
                    /\ \A e \in queue' : e.item.corners # parent.corners
                    /\ current_simplex' = None
                    /\ current_difference' = None]_vars

\* C15 witness: a pending 2-dimensional simplex has been split with the
\* exploration depth set to 1; the range has changed with the report
C15_Witness ==
    /\ Reported
    /\ ~last_call.bootstrap
    /\ ~last_call.implicit
    /\ Dimension = 2
    /\ exploration_depth = 1
    /\ Cardinality(queue) = 3
    /\ best_point.value - min_value # last_call.hi - last_call.lo

\* C16: no region is lost: after bootstrap the queue and the pending simplex
\* together are the leaves of the split tree, pairwise distinct, and after k
\* steady-state reports they are 1 + k * d simplices.
C16_NoRegionLost ==
    (BootstrapDone /\ ~panicked)
        => LET k == Len(reported) - (Dimension + 1)
               leaves == {e.item.corners : e \in queue}
                         \cup {Unwrap(current_simplex).corners : i \in
                                  IF IsSome(current_simplex) THEN {1} ELSE {}}
           IN Cardinality(leaves) = 1 + k * Dimension

\* C17: current_simplex and current_difference are both present or both
\* absent; in_progress_simplex and current_simplex are never both present;
\* while in_progress_simplex is present the queue is empty and its pointer is
\* below d + 1.
C17_PhaseConsistency ==
    /\ IsSome(current_simplex) <=> IsSome(current_difference)
    /\ ~(IsSome(in_progress_simplex) /\ IsSome(current_simplex))
    /\ IsSome(in_progress_simplex)
           => /\ queue = {}
              /\ Unwrap(in_progress_simplex).dim < Dimension + 1

\* C17 witness: a steady-state suggestion is pending in 2 dimensions, with
\* simplices left in the queue
C17_Witness ==
    /\ Suggested
    /\ ~last_call.bootstrap
    /\ Dimension = 2
    /\ IsSome(current_simplex)
    /\ IsSome(current_difference)
    /\ ~IsSome(in_progress_simplex)
    /\ queue # {}

\* C18: once the bootstrap is over best_point.value is the greatest and
\* min_value the least of all values passed to next_with_value, the bootstrap
\* values included, so min_value <= best_point.value and no range recorded
\* or stamped is negative; a steady-state report whose value equals
\* best_point.value leaves best_point as it is.
C18_RangeTrackers ==
    [][/\ (BootstrapDone' /\ ~panicked')
              => /\ best_point'.value = MaxOf(ReportedValues')
                 /\ min_value' = MinOf(ReportedValues')
                 /\ min_value' <= best_point'.value
                 /\ IsSome(current_difference') => Unwrap(current_difference') >= 0
                 /\ \A e \in queue' : e.item.difference >= 0
       /\ (/\ ~Bootstrapping
           /\ Len(reported') = Len(reported) + 1
           /\ reported'[Len(reported')] = best_point.value)
              => best_point' = best_point]_vars

\* C18 witness: the first steady-state report brought a value equal to the
\* best so far, with a smaller value reported before
C18_Witness ==
    /\ Reported
    /\ ~last_call.bootstrap
    /\ Len(reported) = Dimension + 2
    /\ reported[Len(reported)] = last_call.hi
    /\ best_point.value = last_call.hi
    /\ min_value < best_point.value

====
